---- MODULE Spec2Model ----
(***************************************************************************)
(* Model of the native/managed bridging helpers of binding/utils.h:        *)
(* the error-raising primitive, the two status translators, the argument   *)
(* validators, ExtractArrayShape, GetStringParam and the Int32Tensor       *)
(* constructors with their deallocation callback.                          *)
(*                                                                         *)
(* The managed environment (napi_env) is the record `env`:                 *)
(*   pending    <<>> or <<m>>, the exception pending in the environment    *)
(*   thrown     the messages handed to napi_throw_error by the function    *)
(*              that is running or has just returned                       *)
(*   raised     the number of messages handed to napi_throw_error since    *)
(*              the crossing began                                         *)
(*   last_error the status of the last boundary call (what                 *)
(*              napi_get_last_error_info reports)                          *)
(***************************************************************************)
EXTENDS Integers, Sequences, FiniteSets, TLC

VARIABLES env, pc, fn, ret, steps, heap, tensors

vars == <<env, pc, fn, ret, steps, heap, tensors>>

(***************************************************************************)
(* Bounds of the model                                                     *)
(***************************************************************************)
MaxThrown == 2
MaxArrayLen == 2
MaxAddr == 3
MaxTensors == 2
MaxRank == 2
MaxDim == 2
LongMsgLen == 480

(***************************************************************************)
(* Program constants                                                       *)
(***************************************************************************)
BufferSize == 500
TF_OK == 0
MAX_TENSOR_SHAPE == 4

(***************************************************************************)
(* Strings                                                                 *)
(***************************************************************************)
RECURSIVE Rep(_, _)
Rep(c, n) ==
  IF n <= 0 THEN ""
  ELSE IF n % 2 = 0 THEN LET half == Rep(c, n \div 2) IN half \o half
  ELSE c \o Rep(c, n - 1)

Contains(s, sub) ==
  \E i \in 1..(Len(s) - Len(sub) + 1) : SubSeq(s, i, i + Len(sub) - 1) = sub

StartsWith(s, p) == Len(s) >= Len(p) /\ SubSeq(s, 1, Len(p)) = p

\* "%u" of an unsigned value
FormatU(n) == ToString(n)

\* std::vsnprintf(buffer, 500, ...): at most 499 characters are kept
vsnprintf(s) ==
  IF Len(s) > BufferSize - 1 THEN SubSeq(s, 1, BufferSize - 1) ELSE s

(***************************************************************************)
(* The managed environment                                                 *)
(***************************************************************************)
NapiFailures ==
  { "napi_invalid_arg", "napi_object_expected", "napi_string_expected",
    "napi_number_expected", "napi_array_expected", "napi_generic_failure",
    "napi_pending_exception" }

NapiStatuses == {"napi_ok"} \cup NapiFailures

\* error_info->error_message of napi_get_last_error_info; <<>> is a null
\* message pointer
napi_get_last_error_info(e) ==
  CASE e.last_error = "napi_invalid_arg" -> <<"Invalid argument">>
    [] e.last_error = "napi_object_expected" -> <<"An object was expected">>
    [] e.last_error = "napi_string_expected" -> <<"A string was expected">>
    [] e.last_error = "napi_number_expected" -> <<"A number was expected">>
    [] e.last_error = "napi_array_expected" -> <<"An array was expected">>
    [] e.last_error = "napi_generic_failure" -> <<"Unknown failure">>
    [] e.last_error = "napi_pending_exception" -> <<"An exception is pending">>
    [] OTHER -> <<>>

\* the environment after a boundary call that returned status st
NapiCall(e, st) == [e EXCEPT !.last_error = st]

FreshEnv ==
  [pending |-> <<>>, thrown |-> <<>>, raised |-> 0, last_error |-> "napi_ok"]

\* napi_throw_error: raises unless an exception is already pending, in which
\* case the call fails with napi_pending_exception and the first one stays
napi_throw_error(e, buffer) ==
  [pending |-> IF e.pending = <<>> THEN <<buffer>> ELSE e.pending,
   thrown |-> Append(e.thrown, buffer),
   raised |-> e.raised + 1,
   last_error |-> IF e.pending = <<>> THEN "napi_ok"
                  ELSE "napi_pending_exception"]

NapiThrowError(e, message) == napi_throw_error(e, vsnprintf(message))

(***************************************************************************)
(* Status translators.  Each returns [env, ret].                           *)
(***************************************************************************)
NapiStatusMessage(e) ==
  "Invalid napi_status: "
    \o (IF napi_get_last_error_info(e) /= <<>>
        THEN napi_get_last_error_info(e)[1] ELSE "unknown")
    \o "\n"

\* faulty variant: the failed status is not raised
EnsureNapiOK_NoThrow(e, status) ==
  [env |-> e, ret |-> status = "napi_ok"]
EnsureNapiOK(e, status) ==
  [env |-> IF status /= "napi_ok"
           THEN NapiThrowError(e, NapiStatusMessage(e)) ELSE e,
   ret |-> status = "napi_ok"]

TFStatusMessage(code, msg) ==
  "Invalid TF_Status: " \o FormatU(code) \o "\nMessage: " \o msg

\* faulty variant: the message of the runtime is left out
EnsureTFOK_NoMessage(e, status) ==
  [env |-> IF status.code /= TF_OK
           THEN NapiThrowError(e, "Invalid TF_Status: " \o FormatU(status.code))
           ELSE e,
   ret |-> status.code = TF_OK]
EnsureTFOK(e, status) ==
  [env |-> IF status.code /= TF_OK
           THEN NapiThrowError(e, TFStatusMessage(status.code, status.message))
           ELSE e,
   ret |-> status.code = TF_OK]

(***************************************************************************)
(* Managed values.  A number is kept as a count of halves (5 is 2.5), or   *)
(* is not finite (NaN, +-Infinity).                                        *)
(***************************************************************************)
Value(kind, halves, finite, str, elems) ==
  [kind |-> kind, halves |-> halves, finite |-> finite, str |-> str,
   elems |-> elems]

Num(h) == Value("number", h, TRUE, "", <<>>)
NaN == Value("number", 0, FALSE, "", <<>>)
Str(s) == Value("string", 0, TRUE, s, <<>>)
Undefined == Value("undefined", 0, TRUE, "", <<>>)
Object == Value("object", 0, TRUE, "", <<>>)
TypedArray == Value("typedarray", 0, TRUE, "", <<>>)
Array(es) == Value("array", 0, TRUE, "", es)

\* the napi_valuetype napi_typeof stores for a value
napi_typeof(value) ==
  CASE value.kind = "number" -> "napi_number"
    [] value.kind = "string" -> "napi_string"
    [] value.kind = "undefined" -> "napi_undefined"
    [] OTHER -> "napi_object"

napi_is_array(value) == value.kind = "array"

napi_is_typedarray(value) == value.kind = "typedarray"

\* The statuses a boundary call can return: the one its arguments call for,
\* and a failure of the call itself when they call for success.
Outcomes(natural) ==
  IF natural = "napi_ok" THEN {"napi_ok", "napi_generic_failure"}
  ELSE {natural}

Step(call, status) == [call |-> call, status |-> status]

(***************************************************************************)
(* The return-on-failure macros: the enclosing function returns retval     *)
(* when the check failed and goes on with rest otherwise.  A check is a    *)
(* record [env, ret, calls].                                               *)
(***************************************************************************)
ENSURE_NAPI_OK_RETVAL(check, retval, rest) ==
  IF ~check.ret THEN retval ELSE rest

Checked(r, calls) == [env |-> r.env, ret |-> r.ret, calls |-> calls]

(***************************************************************************)
(* The return-on-failure macros at a call site inside a function that runs *)
(* step by step: the function returns (retval, a record [pc, ret]) when    *)
(* the check failed and goes on with rest otherwise.                       *)
(***************************************************************************)
ReturnWith(v) == [pc |-> "done", ret |-> v]

GoOn(label) == [pc |-> label, ret |-> "none"]

\* faulty variant: the function goes on after a failed check
ENSURE_NAPI_OK_NoReturn(check, rest) == rest
ENSURE_NAPI_OK(check, rest) ==
  IF ~check.ret THEN ReturnWith("void") ELSE rest

\* faulty variant: the function goes on after a failed check
ENSURE_CONSTRUCTOR_CALL_NoReturn(check, rest) == rest
ENSURE_CONSTRUCTOR_CALL(check, rest) ==
  IF ~check.ret THEN ReturnWith("void") ELSE rest

ENSURE_VALUE_IS_LESS_THAN(check, rest) ==
  IF ~check.ret THEN ReturnWith("void") ELSE rest

ENSURE_VALUE_IS_STRING_RETVAL(check, retval, rest) ==
  IF ~check.ret THEN ReturnWith(retval) ELSE rest

ENSURE_VALUE_IS_NOT_NULL_RETVAL(check, retval, rest) ==
  IF ~check.ret THEN ReturnWith(retval) ELSE rest

(***************************************************************************)
(* Argument validators.  st is the status the validator's boundary call    *)
(* returns.  Each returns [env, ret, calls].                               *)
(***************************************************************************)
EnsureConstructorCall(e, info, st) ==
  LET e1 == NapiCall(e, st)
      calls == <<Step("napi_get_new_target", st)>>
      check == EnsureNapiOK(e1, st)
      is_target == info.new_target
  IN ENSURE_NAPI_OK_RETVAL(check,
       [env |-> check.env, ret |-> FALSE, calls |-> calls],
       [env |-> IF ~is_target
                THEN NapiThrowError(e1, "Function not used as a constructor!")
                ELSE e1,
        ret |-> is_target, calls |-> calls])

TypeValidator(e, call, st, is_type, message) ==
  LET e1 == NapiCall(e, st)
      calls == <<Step(call, st)>>
      check == EnsureNapiOK(e1, st)
  IN ENSURE_NAPI_OK_RETVAL(check,
       [env |-> check.env, ret |-> FALSE, calls |-> calls],
       [env |-> IF ~is_type THEN NapiThrowError(e1, message) ELSE e1,
        ret |-> is_type, calls |-> calls])

EnsureValueIsObject(e, value, st) ==
  TypeValidator(e, "napi_typeof", st, napi_typeof(value) = "napi_object",
                "Argument is not an object!")

EnsureValueIsString(e, value, st) ==
  TypeValidator(e, "napi_typeof", st, napi_typeof(value) = "napi_string",
                "Argument is not a string!")

EnsureValueIsNumber(e, value, st) ==
  TypeValidator(e, "napi_typeof", st, napi_typeof(value) = "napi_number",
                "Argument is not a string!")

EnsureValueIsArray(e, value, st) ==
  TypeValidator(e, "napi_is_array", st, napi_is_array(value),
                "Argument is not an array!")

EnsureValueIsTypedArray(e, value, st) ==
  TypeValidator(e, "napi_is_typedarray", st, napi_is_typedarray(value),
                "Argument is not a typed-array!")

RangeMessage(value, max) ==
  "Argument is greater than max: " \o FormatU(value) \o " > " \o FormatU(max)

\* faulty variant: value == max is refused
EnsureValueIsLessThan_Inclusive(e, value, max) ==
  IF value >= max
  THEN [env |-> NapiThrowError(e, RangeMessage(value, max)), ret |-> FALSE,
        calls |-> <<>>]
  ELSE [env |-> e, ret |-> TRUE, calls |-> <<>>]
EnsureValueIsLessThan(e, value, max) ==
  IF value > max
  THEN [env |-> NapiThrowError(e, RangeMessage(value, max)), ret |-> FALSE,
        calls |-> <<>>]
  ELSE [env |-> e, ret |-> TRUE, calls |-> <<>>]

\* value is an address, 0 the null pointer
EnsureValueIsNotNull(e, value) ==
  LET is_null == value = 0
  IN [env |-> IF is_null THEN NapiThrowError(e, "Argument is null!") ELSE e,
      ret |-> ~is_null, calls |-> <<>>]

IsExceptionPending(e, st) ==
  LET e1 == NapiCall(e, st)
      has_exception == IF st = "napi_ok" THEN e.pending /= <<>> ELSE FALSE
      check == EnsureNapiOK(e1, st)
  IN ENSURE_NAPI_OK_RETVAL(check,
       [env |-> check.env, ret |-> has_exception,
        calls |-> <<Step("napi_is_exception_pending", st)>>],
       [env |-> e1, ret |-> has_exception,
        calls |-> <<Step("napi_is_exception_pending", st)>>])

(***************************************************************************)
(* The native heap.  A cell is allocated at most once; frees counts the    *)
(* releases of it and released_as keeps the form of the last one.          *)
(***************************************************************************)
UnusedCell ==
  [form |-> "unused", live |-> FALSE, frees |-> 0, released_as |-> "none",
   owner |-> "none", val |-> <<>>]

Unused(h) == {a \in DOMAIN h : h[a].form = "unused"}

\* the address an allocation returns when it succeeds
NextAddr(h) == CHOOSE a \in Unused(h) : \A b \in Unused(h) : a <= b

Allocate(h, a, form, val) ==
  [h EXCEPT ![a] = [form |-> form, live |-> TRUE, frees |-> 0,
                    released_as |-> "none", owner |-> "bridge", val |-> val]]

Release(h, a, how) ==
  [h EXCEPT ![a] = [@ EXCEPT !.live = FALSE, !.frees = @ + 1,
                             !.released_as = how, !.owner = "none",
                             !.val = <<>>]]

\* napi_get_value_int64: a finite number is truncated toward zero, NaN and
\* the infinities give 0
napi_get_value_int64(value) ==
  IF ~value.finite THEN 0
  ELSE IF value.halves >= 0 THEN value.halves \div 2
  ELSE -((-value.halves) \div 2)

(***************************************************************************)
(* Tensors of the native runtime.  A tensor is a record                    *)
(*   dims         its dimensions                                           *)
(*   buf          the address of a buffer handed over with TF_NewTensor,   *)
(*                0 when the runtime allocated the buffer itself           *)
(*   data         the elements when the runtime holds them itself          *)
(*   deallocator  the callback registered with the buffer                  *)
(*   released     the pointers the runtime has passed to the callback      *)
(*   alive        FALSE once the runtime has deleted the tensor            *)
(***************************************************************************)
TF_NumDims(tensor) == Len(tensor.dims)

\* TF_Dim with the index counted from 0
TF_Dim(tensor, i) == tensor.dims[i + 1]

TF_TensorData(tensor, h) ==
  IF tensor.buf /= 0 /\ tensor.data = <<>> /\ h[tensor.buf].live
  THEN h[tensor.buf].val ELSE tensor.data

RECURSIVE NumElementsFrom(_, _, _)
NumElementsFrom(tensor, i, r) ==
  IF i < TF_NumDims(tensor)
  THEN NumElementsFrom(tensor, i + 1, r * TF_Dim(tensor, i))
  ELSE r

GetTensorNumElements(tensor) == NumElementsFrom(tensor, 0, 1)

\* faulty variant: free() on a buffer made with new[]
Int32Deallocator_Free(h, data) == Release(h, data, "free")
Int32Deallocator(h, data) == Release(h, data, "delete[]")

\* TF_AllocateTensor: a tensor whose buffer of len bytes the runtime owns
TF_AllocateTensor(dims, num_dims, len) ==
  [dims |-> SubSeq(dims, 1, num_dims), buf |-> 0,
   data |-> [k \in 1..(len \div 4) |-> 0], deallocator |-> "none",
   released |-> <<>>, alive |-> TRUE]

RECURSIVE NumValuesFrom(_, _, _, _)
NumValuesFrom(dims, num_dims, i, num_values) ==
  IF i < num_dims
  THEN NumValuesFrom(dims, num_dims, i + 1, num_values * dims[i + 1])
  ELSE num_values

\* memcpy(TF_TensorData(t), values, bytes)
memcpy(t, values, bytes) ==
  [t EXCEPT !.data = [k \in 1..Len(t.data) |->
                        IF k <= bytes \div 4 THEN values[k] ELSE t.data[k]]]

\* Int32Tensor(dims, num_dims, values) when TF_AllocateTensor returns a tensor
\* faulty variant: num_values starts at 0
Int32Tensor_ZeroCount(dims, num_dims, values) ==
  LET num_values == NumValuesFrom(dims, num_dims, 0, 0)
      t == TF_AllocateTensor(dims, num_dims, 4 * num_values)
  IN memcpy(t, values, 4 * num_values)
Int32Tensor(dims, num_dims, values) ==
  LET num_values == NumValuesFrom(dims, num_dims, 0, 1)
      t == TF_AllocateTensor(dims, num_dims, 4 * num_values)
  IN memcpy(t, values, 4 * num_values)

\* Int32Tensor(const std::vector<int32_t>&)
Int32TensorVector(values) == Int32Tensor(<<Len(values)>>, 1, values)

(***************************************************************************)
(* Inputs                                                                  *)
(***************************************************************************)
\* TF_OK, TF_INVALID_ARGUMENT, TF_INTERNAL
TFCodes == {TF_OK, 3, 13}

TFMessages == {"", "OOM when allocating tensor", Rep("x", LongMsgLen)}

TFStatuses == [code : TFCodes, message : TFMessages]

Scalars == {Num(4), Str("ab"), Undefined}

Values == Scalars \cup {Object, TypedArray, Array(<<>>), Array(<<Num(4)>>)}

Uint32s == {0, MAX_TENSOR_SHAPE, MAX_TENSOR_SHAPE + 1}

Elems == {Num(5), Num(-3), NaN, Str("ab")}

ElemSeqs == UNION {[1..n -> Elems] : n \in 0..MaxArrayLen}

ArrayArgs == {Array(es) : es \in ElemSeqs} \cup {Object}

StringArgs == {Str("ab"), Str(""), Num(4), Object}

Int32s == {7, -1}

\* buffers of n values: 1, 2, ..., n and -1, -2, ..., -n
Buffers(n) == {[k \in 1..n |-> k], [k \in 1..n |-> -k]}

DimSeqs == UNION {[1..n -> 0..MaxDim] : n \in 0..MaxRank}

RECURSIVE Product(_)
Product(dims) == IF dims = <<>> THEN 1 ELSE Head(dims) * Product(Tail(dims))

\* the value buffers that hold the elements of a tensor of these dimensions
ValuesFor(dims) == Buffers(Product(dims))

Vectors == UNION {Buffers(n) : n \in 0..MaxDim}

Infos == [new_target : BOOLEAN]

BoolRet(b) == IF b THEN "true" ELSE "false"

(***************************************************************************)
(* State machine.  pc = "idle": the crossing is between two calls of the   *)
(* layer; pc = "done": the called function has returned ret.               *)
(***************************************************************************)
Init ==
  /\ env = FreshEnv
  /\ pc = "idle"
  /\ fn = [name |-> "none"]
  /\ ret = "none"
  /\ steps = <<>>
  /\ heap = [a \in 1..MaxAddr |-> UnusedCell]
  /\ tensors = <<>>

CanCall == pc = "idle" /\ env.raised < MaxThrown

\* a whole function that ran to its return
Returned(name, args, r) ==
  /\ env' = r.env
  /\ ret' = BoolRet(r.ret)
  /\ steps' = r.calls
  /\ fn' = [name |-> name, args |-> args, before |-> env]
  /\ pc' = "done"
  /\ UNCHANGED <<heap, tensors>>

Call_EnsureTFOK ==
  /\ CanCall
  /\ \E status \in TFStatuses :
       Returned("EnsureTFOK", status,
                Checked(EnsureTFOK(env, status), <<>>))

\* a boundary call returned st and its status is checked
Call_EnsureNapiOK ==
  /\ CanCall
  /\ \E st \in {"napi_ok", "napi_invalid_arg", "napi_pending_exception"} :
       Returned("EnsureNapiOK", st,
                Checked(EnsureNapiOK(NapiCall(env, st), st), <<>>))

Call_EnsureConstructorCall ==
  /\ CanCall
  /\ \E info \in Infos : \E st \in Outcomes("napi_ok") :
       Returned("EnsureConstructorCall", [info |-> info, st |-> st],
                EnsureConstructorCall(env, info, st))

Validators ==
  {"EnsureValueIsObject", "EnsureValueIsString", "EnsureValueIsNumber",
   "EnsureValueIsArray", "EnsureValueIsTypedArray"}

RunValidator(name, e, value, st) ==
  CASE name = "EnsureValueIsObject" -> EnsureValueIsObject(e, value, st)
    [] name = "EnsureValueIsString" -> EnsureValueIsString(e, value, st)
    [] name = "EnsureValueIsNumber" -> EnsureValueIsNumber(e, value, st)
    [] name = "EnsureValueIsArray" -> EnsureValueIsArray(e, value, st)
    [] OTHER -> EnsureValueIsTypedArray(e, value, st)

Call_TypeValidator ==
  /\ CanCall
  /\ \E name \in Validators : \E value \in Values :
       \E st \in Outcomes("napi_ok") :
         Returned(name, [value |-> value, st |-> st],
                  RunValidator(name, env, value, st))

Call_EnsureValueIsLessThan ==
  /\ CanCall
  /\ \E value \in Uint32s : \E max \in Uint32s :
       Returned("EnsureValueIsLessThan", [value |-> value, max |-> max],
                EnsureValueIsLessThan(env, value, max))

Call_EnsureValueIsNotNull ==
  /\ CanCall
  /\ \E value \in 0..MaxAddr :
       Returned("EnsureValueIsNotNull", value,
                EnsureValueIsNotNull(env, value))

Call_IsExceptionPending ==
  /\ CanCall
  /\ \E st \in Outcomes("napi_ok") :
       Returned("IsExceptionPending", st, IsExceptionPending(env, st))

(***************************************************************************)
(* A constructor-style entry point: ENSURE_CONSTRUCTOR_CALL, then          *)
(* ENSURE_VALUE_IS_LESS_THAN on an argument, then the allocation of its    *)
(* resource.                                                               *)
(***************************************************************************)
Call_EntryPoint ==
  /\ CanCall
  /\ \E info \in Infos : \E value \in Uint32s : \E max \in Uint32s :
       fn' = [name |-> "EntryPoint", before |-> env,
              args |-> [info |-> info, value |-> value, max |-> max]]
  /\ pc' = "ep_constructor"
  /\ ret' = "none"
  /\ steps' = <<>>
  /\ UNCHANGED <<env, heap, tensors>>

EP_Constructor ==
  /\ pc = "ep_constructor"
  /\ \E st \in Outcomes("napi_ok") :
       LET check == EnsureConstructorCall(env, fn.args.info, st)
           k == ENSURE_CONSTRUCTOR_CALL(check, GoOn("ep_range"))
       IN /\ env' = check.env
          /\ steps' = steps \o check.calls
                        \o <<Step("EnsureConstructorCall", BoolRet(check.ret))>>
          /\ pc' = k.pc
          /\ ret' = k.ret
  /\ UNCHANGED <<fn, heap, tensors>>

EP_Range ==
  /\ pc = "ep_range"
  /\ LET check == EnsureValueIsLessThan(env, fn.args.value, fn.args.max)
         k == ENSURE_VALUE_IS_LESS_THAN(check, GoOn("ep_allocate"))
     IN /\ env' = check.env
        /\ steps' = Append(steps, Step("EnsureValueIsLessThan",
                                       BoolRet(check.ret)))
        /\ pc' = k.pc
        /\ ret' = k.ret
  /\ UNCHANGED <<fn, heap, tensors>>

EP_Allocate ==
  /\ pc = "ep_allocate"
  /\ steps' = Append(steps, Step("allocate", "true"))
  /\ pc' = "done"
  /\ ret' = "void"
  /\ UNCHANGED <<env, fn, heap, tensors>>

(***************************************************************************)
(* ExtractArrayShape                                                       *)
(***************************************************************************)
Call_ExtractArrayShape ==
  /\ CanCall
  /\ \E array_value \in ArrayArgs : \E result \in {<<>>, <<9>>} :
       fn' = [name |-> "ExtractArrayShape", before |-> env,
              args |-> array_value, result0 |-> result, result |-> result,
              array_length |-> 0, i |-> 0, dimension_value |-> Undefined]
  /\ pc' = "eas_length"
  /\ ret' = "none"
  /\ steps' = <<>>
  /\ UNCHANGED <<env, heap, tensors>>

\* napi_get_array_length and its check
EAS_Length ==
  /\ pc = "eas_length"
  /\ \E nstatus \in Outcomes(IF napi_is_array(fn.args) THEN "napi_ok"
                             ELSE "napi_array_expected") :
       LET check == EnsureNapiOK(NapiCall(env, nstatus), nstatus)
           k == ENSURE_NAPI_OK(check, GoOn("eas_element"))
       IN /\ env' = check.env
          /\ steps' = Append(steps, Step("napi_get_array_length", nstatus))
          /\ pc' = k.pc
          /\ ret' = k.ret
          /\ fn' = IF k.pc = "done" THEN fn
                   ELSE [fn EXCEPT !.array_length = Len(fn.args.elems)]
  /\ UNCHANGED <<heap, tensors>>

\* the loop test; napi_get_element and its check when the loop goes on.
\* napi_get_element fails while an exception is pending.
EAS_Element ==
  /\ pc = "eas_element"
  /\ IF fn.i < fn.array_length
     THEN \E nstatus \in Outcomes(IF env.pending = <<>> THEN "napi_ok"
                                  ELSE "napi_pending_exception") :
            LET check == EnsureNapiOK(NapiCall(env, nstatus), nstatus)
                k == ENSURE_NAPI_OK(check, GoOn("eas_int64"))
            IN /\ env' = check.env
               /\ steps' = Append(steps, Step("napi_get_element", nstatus))
               /\ pc' = k.pc
               /\ ret' = k.ret
               /\ fn' = IF k.pc = "done" THEN fn
                        ELSE [fn EXCEPT !.dimension_value =
                                          fn.args.elems[fn.i + 1]]
     ELSE /\ pc' = "done"
          /\ ret' = "void"
          /\ UNCHANGED <<env, steps, fn>>
  /\ UNCHANGED <<heap, tensors>>

\* faulty variant: the dimension is inserted at the front of the result
EAS_Int64_PushFront ==
  /\ pc = "eas_int64"
  /\ \E nstatus \in Outcomes(IF fn.dimension_value.kind = "number"
                             THEN "napi_ok" ELSE "napi_number_expected") :
       LET check == EnsureNapiOK(NapiCall(env, nstatus), nstatus)
           k == ENSURE_NAPI_OK(check, GoOn("eas_element"))
       IN /\ env' = check.env
          /\ steps' = Append(steps, Step("napi_get_value_int64", nstatus))
          /\ pc' = k.pc
          /\ ret' = k.ret
          /\ fn' = IF k.pc = "done" THEN fn
                   ELSE [fn EXCEPT
                           !.result = <<napi_get_value_int64(
                                          fn.dimension_value)>> \o @,
                           !.i = @ + 1]
  /\ UNCHANGED <<heap, tensors>>

\* napi_get_value_int64, its check, push_back and i++
EAS_Int64 ==
  /\ pc = "eas_int64"
  /\ \E nstatus \in Outcomes(IF fn.dimension_value.kind = "number"
                             THEN "napi_ok" ELSE "napi_number_expected") :
       LET check == EnsureNapiOK(NapiCall(env, nstatus), nstatus)
           k == ENSURE_NAPI_OK(check, GoOn("eas_element"))
       IN /\ env' = check.env
          /\ steps' = Append(steps, Step("napi_get_value_int64", nstatus))
          /\ pc' = k.pc
          /\ ret' = k.ret
          /\ fn' = IF k.pc = "done" THEN fn
                   ELSE [fn EXCEPT
                           !.result = Append(@, napi_get_value_int64(
                                                  fn.dimension_value)),
                           !.i = @ + 1]
  /\ UNCHANGED <<heap, tensors>>

(***************************************************************************)
(* GetStringParam                                                          *)
(***************************************************************************)
Call_GetStringParam ==
  /\ CanCall
  /\ \E string_value \in StringArgs :
       fn' = [name |-> "GetStringParam", before |-> env,
              args |-> string_value, str_length |-> 0, buffer |-> 0,
              string |-> "old"]
  /\ pc' = "gsp_string"
  /\ ret' = "none"
  /\ steps' = <<>>
  /\ UNCHANGED <<env, heap, tensors>>

GSP_EnsureString ==
  /\ pc = "gsp_string"
  /\ \E st \in Outcomes("napi_ok") :
       LET check == EnsureValueIsString(env, fn.args, st)
           k == ENSURE_VALUE_IS_STRING_RETVAL(check, "napi_invalid_arg",
                                              GoOn("gsp_length"))
       IN /\ env' = check.env
          /\ steps' = Append(steps, Step("EnsureValueIsString",
                                         BoolRet(check.ret)))
          /\ pc' = k.pc
          /\ ret' = k.ret
  /\ UNCHANGED <<fn, heap, tensors>>

\* napi_get_value_string_utf8 with no buffer: the length of the string
GSP_Length ==
  /\ pc = "gsp_length"
  /\ \E nstatus \in Outcomes(IF fn.args.kind = "string" THEN "napi_ok"
                             ELSE "napi_string_expected") :
       LET check == EnsureNapiOK(NapiCall(env, nstatus), nstatus)
           k == ENSURE_NAPI_OK_RETVAL(check, ReturnWith(nstatus),
                                      GoOn("gsp_malloc"))
       IN /\ env' = check.env
          /\ steps' = Append(steps, Step("napi_get_value_string_utf8", nstatus))
          /\ pc' = k.pc
          /\ ret' = k.ret
          /\ fn' = IF k.pc = "done" THEN fn
                   ELSE [fn EXCEPT !.str_length = Len(fn.args.str)]
  /\ UNCHANGED <<heap, tensors>>

\* malloc(str_length + 1), which may return the null pointer, and its check
GSP_Malloc ==
  /\ pc = "gsp_malloc"
  /\ \E buffer \in {0} \cup (IF Unused(heap) = {} THEN {}
                             ELSE {NextAddr(heap)}) :
       LET check == EnsureValueIsNotNull(env, buffer)
           k == ENSURE_VALUE_IS_NOT_NULL_RETVAL(check, "napi_generic_failure",
                                                GoOn("gsp_copy"))
       IN /\ heap' = IF buffer = 0 THEN heap
                     ELSE Allocate(heap, buffer, "malloc", <<>>)
          /\ fn' = [fn EXCEPT !.buffer = buffer]
          /\ env' = check.env
          /\ steps' = Append(steps, Step("malloc", BoolRet(check.ret)))
          /\ pc' = k.pc
          /\ ret' = k.ret
  /\ UNCHANGED tensors

\* napi_get_value_string_utf8 into the buffer, its check, string.assign,
\* free and return
GSP_Copy ==
  /\ pc = "gsp_copy"
  /\ \E nstatus \in Outcomes(IF fn.args.kind = "string" THEN "napi_ok"
                             ELSE "napi_string_expected") :
       LET check == EnsureNapiOK(NapiCall(env, nstatus), nstatus)
           k == ENSURE_NAPI_OK_RETVAL(check, ReturnWith(nstatus),
                                      GoOn("gsp_assign"))
       IN /\ env' = check.env
          /\ steps' = Append(steps, Step("napi_get_value_string_utf8", nstatus))
          /\ pc' = "done"
          /\ IF k.pc = "done"
             THEN /\ ret' = k.ret
                  /\ heap' = heap
                  /\ fn' = fn
             ELSE /\ ret' = "napi_ok"
                  /\ fn' = [fn EXCEPT !.string = SubSeq(fn.args.str, 1,
                                                        fn.str_length)]
                  /\ heap' = Release([heap EXCEPT ![fn.buffer].val =
                                                    fn.args.str],
                                     fn.buffer, "free")
  /\ UNCHANGED tensors

(***************************************************************************)
(* Int32Tensor(dims, num_dims, values) and Int32Tensor(vector).  When      *)
(* TF_AllocateTensor returns the null pointer TF_TensorData is applied to  *)
(* it: the process dies, or the null pointer comes back to the caller.     *)
(***************************************************************************)
Constructed(name, args, t, allocated) ==
  /\ fn' = [name |-> name, args |-> args, before |-> env,
            t |-> IF allocated THEN <<t>> ELSE <<>>]
  /\ steps' = <<Step("TF_AllocateTensor", BoolRet(allocated))>>
  /\ \/ allocated /\ pc' = "done" /\ ret' = "tensor"
     \/ ~allocated /\ pc' = "done" /\ ret' = "null"
     \/ ~allocated /\ pc' = "crashed" /\ ret' = "none"
  /\ UNCHANGED <<env, heap, tensors>>

Call_Int32Tensor ==
  /\ pc = "idle"
  /\ \E dims \in DimSeqs : \E values \in ValuesFor(dims) :
       \E allocated \in BOOLEAN :
         Constructed("Int32Tensor", [dims |-> dims, values |-> values],
                     Int32Tensor(dims, Len(dims), values), allocated)

Call_Int32TensorVector ==
  /\ pc = "idle"
  /\ \E values \in Vectors : \E allocated \in BOOLEAN :
       Constructed("Int32TensorVector", [values |-> values],
                   Int32TensorVector(values), allocated)

(***************************************************************************)
(* Int32Tensor(int32_t): new int32_t[1], then TF_NewTensor with            *)
(* Int32Deallocator.  The runtime either keeps the buffer until it deletes *)
(* the tensor, or copies the value and releases the buffer at once.        *)
(***************************************************************************)
Call_Int32TensorScalar ==
  /\ pc = "idle"
  /\ Unused(heap) /= {}
  /\ Len(tensors) < MaxTensors
  /\ \E v \in Int32s :
       /\ heap' = Allocate(heap, NextAddr(heap), "new[]", <<v>>)
       /\ fn' = [name |-> "Int32TensorScalar", args |-> v, before |-> env,
                 values |-> NextAddr(heap)]
  /\ pc' = "i32_newtensor"
  /\ ret' = "none"
  /\ steps' = <<>>
  /\ UNCHANGED <<env, tensors>>

TF_NewTensor(data, deallocator, copies) ==
  [dims |-> <<>>, buf |-> data, data |-> IF copies THEN heap[data].val ELSE <<>>,
   deallocator |-> deallocator,
   released |-> IF copies THEN <<data>> ELSE <<>>, alive |-> TRUE]

I32_NewTensor ==
  /\ pc = "i32_newtensor"
  /\ \E copies \in BOOLEAN :
       LET handed == [heap EXCEPT ![fn.values].owner = "runtime"]
       IN /\ tensors' = Append(tensors, TF_NewTensor(fn.values,
                                          "Int32Deallocator", copies))
          /\ heap' = IF copies THEN Int32Deallocator(handed, fn.values)
                     ELSE handed
  /\ fn' = [fn EXCEPT !.values = 0]
  /\ ret' = "tensor"
  /\ pc' = "done"
  /\ steps' = <<Step("TF_NewTensor", "true")>>
  /\ UNCHANGED env

\* the runtime deletes a tensor and calls the registered callback on the
\* buffer it still holds
TF_DeleteTensor ==
  /\ pc = "idle"
  /\ \E t \in 1..Len(tensors) :
       /\ tensors[t].alive
       /\ IF tensors[t].released = <<>>
          THEN /\ heap' = Int32Deallocator(heap, tensors[t].buf)
               /\ tensors' = [tensors EXCEPT ![t].alive = FALSE,
                                ![t].released = <<tensors[t].buf>>,
                                ![t].data = <<>>]
          ELSE /\ heap' = heap
               /\ tensors' = [tensors EXCEPT ![t].alive = FALSE,
                                             ![t].data = <<>>]
  /\ UNCHANGED <<env, pc, fn, ret, steps>>

(***************************************************************************)
(* PlaceholderHelper: TF_NewOperation hands back a description, or the     *)
(* null pointer when it cannot make one; the description goes to           *)
(* TF_SetAttrType unchecked, which ends the process on a null pointer.     *)
(***************************************************************************)
Call_PlaceholderHelper ==
  /\ pc = "idle"
  /\ \E dims \in DimSeqs : \E created \in BOOLEAN : \E finished \in BOOLEAN :
       /\ fn' = [name |-> "PlaceholderHelper", before |-> env,
                 args |-> [dims |-> dims],
                 op |-> IF created /\ finished THEN <<"Placeholder">>
                        ELSE <<>>]
       /\ steps' = <<Step("TF_NewOperation", BoolRet(created))>>
                     \o (IF created
                         THEN <<Step("TF_SetAttrType", "true")>>
                                \o (IF dims /= <<>>
                                    THEN <<Step("TF_SetAttrShape", "true")>>
                                    ELSE <<>>)
                                \o <<Step("TF_FinishOperation",
                                          BoolRet(finished))>>
                         ELSE <<>>)
       /\ pc' = IF created THEN "done" ELSE "crashed"
       /\ ret' = IF created THEN "void" ELSE "none"
  /\ UNCHANGED <<env, heap, tensors>>

\* the caller goes on within the same crossing
Return ==
  /\ pc = "done"
  /\ pc' = "idle"
  /\ fn' = [name |-> "none"]
  /\ ret' = "none"
  /\ steps' = <<>>
  /\ env' = [env EXCEPT !.thrown = <<>>]
  /\ UNCHANGED <<heap, tensors>>

\* the crossing ends: control goes back to the managed caller, which is
\* handed the pending exception
ReturnToManaged ==
  /\ pc = "done"
  /\ env /= FreshEnv
  /\ pc' = "idle"
  /\ fn' = [name |-> "none"]
  /\ ret' = "none"
  /\ steps' = <<>>
  /\ env' = FreshEnv
  /\ UNCHANGED <<heap, tensors>>

Next ==
  \/ Call_EnsureTFOK
  \/ Call_EnsureNapiOK
  \/ Call_EnsureConstructorCall
  \/ Call_TypeValidator
  \/ Call_EnsureValueIsLessThan
  \/ Call_EnsureValueIsNotNull
  \/ Call_IsExceptionPending
  \/ Call_EntryPoint
  \/ EP_Constructor
  \/ EP_Range
  \/ EP_Allocate
  \/ Call_ExtractArrayShape
  \/ EAS_Length
  \/ EAS_Element
  \/ EAS_Int64
  \/ Call_GetStringParam
  \/ GSP_EnsureString
  \/ GSP_Length
  \/ GSP_Malloc
  \/ GSP_Copy
  \/ Return
  \/ ReturnToManaged

Spec == Init /\ [][Next]_vars

\* the tensor constructors and the runtime that holds their tensors
NextTensor ==
  \/ Call_Int32Tensor
  \/ Call_Int32TensorVector
  \/ Call_Int32TensorScalar
  \/ I32_NewTensor
  \/ TF_DeleteTensor
  \/ Return

SpecTensor == Init /\ [][NextTensor]_vars

\* the functions that allocate: GetStringParam, the tensor constructors and
\* PlaceholderHelper
NextAlloc ==
  \/ Call_GetStringParam
  \/ GSP_EnsureString
  \/ GSP_Length
  \/ GSP_Malloc
  \/ GSP_Copy
  \/ Call_Int32Tensor
  \/ Call_Int32TensorVector
  \/ Call_Int32TensorScalar
  \/ I32_NewTensor
  \/ TF_DeleteTensor
  \/ Call_PlaceholderHelper
  \/ Return
  \/ ReturnToManaged

SpecAlloc == Init /\ [][NextAlloc]_vars

(***************************************************************************)
(* Properties                                                              *)
(***************************************************************************)
Last(q) == q[Len(q)]

Min(a, b) == IF a < b THEN a ELSE b

Finished(name) == pc = "done" /\ fn.name = name

\* the function that just returned handed exactly one message to the
\* error-raising primitive
RaisedOne == Len(env.thrown) = Len(fn.before.thrown) + 1

RaisedNone == env.thrown = fn.before.thrown /\ env.pending = fn.before.pending

\* C1 as stated: a non-OK status raises a message that contains the numeric
\* code and the whole message text of the runtime and EnsureTFOK returns
\* false; an OK status raises nothing and EnsureTFOK returns true.
C1_AsStated ==
  Finished("EnsureTFOK") =>
    IF fn.args.code /= TF_OK
    THEN /\ ret = "false"
         /\ RaisedOne
         /\ env.pending /= <<>>
         /\ Contains(Last(env.thrown), FormatU(fn.args.code))
         /\ Contains(Last(env.thrown), fn.args.message)
    ELSE ret = "true" /\ RaisedNone

\* C1 amended: a non-OK status raises the first 499 characters of
\* "Invalid TF_Status: <code>\nMessage: <text>", so the message always holds
\* the numeric code, and the whole text of the runtime when the formatted
\* message fits the 500-byte buffer (the leading part of it otherwise), and
\* EnsureTFOK returns false; an OK status raises nothing and returns true.
C1_Truncated ==
  Finished("EnsureTFOK") =>
    IF fn.args.code /= TF_OK
    THEN LET m == Last(env.thrown)
             head == "Invalid TF_Status: " \o FormatU(fn.args.code)
                       \o "\nMessage: "
             full == head \o fn.args.message
         IN /\ ret = "false"
            /\ RaisedOne
            /\ env.pending /= <<>>
            /\ fn.before.pending = <<>> => env.pending = <<m>>
            /\ Len(m) = Min(Len(full), 499)
            /\ StartsWith(full, m)
            /\ StartsWith(m, head)
            /\ Len(full) <= 499 => Contains(m, fn.args.message)
    ELSE ret = "true" /\ RaisedNone

\* C1 witness: a non-OK status whose text does not fit the buffer was raised
C1_Witness ==
  /\ Finished("EnsureTFOK")
  /\ fn.args.code /= TF_OK
  /\ Len(fn.args.message) = LongMsgLen
  /\ ret = "false"
  /\ Len(Last(env.thrown)) = 499

FailedStatus ==
  \/ Finished("EnsureTFOK") /\ fn.args.code /= TF_OK
  \/ Finished("EnsureNapiOK") /\ fn.args /= "napi_ok"

\* C2 as stated: for a non-success status of either domain the raised
\* message is "Invalid <status-kind>: <code>", then a line that starts with
\* "Message: " and carries the message text.
C2_AsStated ==
  FailedStatus =>
    /\ RaisedOne
    /\ StartsWith(Last(env.thrown), "Invalid ")
    /\ Contains(Last(env.thrown), "\nMessage: ")

\* C2 amended: both translators raise through NapiThrowError, once per
\* non-success status and within its 499 characters, but the layouts differ:
\* EnsureTFOK raises "Invalid TF_Status: <code>\nMessage: <text>", EnsureNapiOK
\* raises "Invalid napi_status: <text>\n", the text of the last boundary
\* error (or "unknown"), with no numeric code and no "Message: " line.
C2_Layouts ==
  FailedStatus =>
    LET m == Last(env.thrown)
    IN /\ RaisedOne
       /\ Len(m) <= 499
       /\ fn.name = "EnsureTFOK" =>
            StartsWith(m, "Invalid TF_Status: " \o FormatU(fn.args.code)
                            \o "\nMessage: ")
       /\ fn.name = "EnsureNapiOK" =>
            /\ StartsWith(m, "Invalid napi_status: ")
            /\ ~Contains(m, "Message: ")
            /\ SubSeq(m, Len(m), Len(m)) = "\n"
            /\ Len(m) > Len("Invalid napi_status: \n")

\* C2 witness: a failed boundary status was raised in the napi layout
C2_Witness ==
  /\ Finished("EnsureNapiOK")
  /\ fn.args = "napi_invalid_arg"
  /\ ret = "false"
  /\ Last(env.thrown) = "Invalid napi_status: Invalid argument\n"

Ok(step) == step.status \in {"napi_ok", "true"}

AllOk == \A k \in 1..Len(steps) : Ok(steps[k])

\* the bridging functions built from the ENSURE_* checks
Bridging ==
  Validators \cup {"EnsureConstructorCall", "GetStringParam",
                   "ExtractArrayShape"}

\* the failure sentinel of a bridging function whose step failed
Sentinel(name, step) ==
  CASE name = "ExtractArrayShape" -> "void"
    [] name = "GetStringParam" ->
         (CASE step.call = "EnsureValueIsString" -> "napi_invalid_arg"
            [] step.call = "malloc" -> "napi_generic_failure"
            [] OTHER -> step.status)
    [] OTHER -> "false"

\* C3: in a bridging function a failed step is the last step the function
\* runs: the function has raised one error and has returned its failure
\* sentinel, with no boundary call or native call after the failing one.
C3_FailFast ==
  fn.name \in Bridging =>
    \A k \in 1..Len(steps) :
      ~Ok(steps[k]) =>
        /\ k = Len(steps)
        /\ pc = "done"
        /\ ret = Sentinel(fn.name, steps[k])
        /\ RaisedOne
        /\ env.pending /= <<>>

\* C3 witness: ExtractArrayShape stopped at its second element, after five
\* steps, the last of which failed
C3_Witness ==
  /\ Finished("ExtractArrayShape")
  /\ Len(steps) = 5
  /\ steps[5] = Step("napi_get_value_int64", "napi_number_expected")
  /\ fn.i = 1
  /\ ret = "void"
  /\ env.pending /= <<>>

AllValidators ==
  Validators \cup {"EnsureValueIsLessThan", "EnsureValueIsNotNull",
                   "EnsureConstructorCall"}

\* C4: a validator that runs while an exception is pending hands no message
\* to the error-raising primitive, a validator whose own boundary call failed
\* hands over exactly one, and validators raise at most one error in a
\* crossing.
C4_NoSecondError ==
  Finished(fn.name) /\ fn.name \in AllValidators =>
    /\ fn.before.pending /= <<>> => env.thrown = <<>>
    /\ ~AllOk => RaisedOne
    /\ fn.before.raised >= 1 => env.raised = fn.before.raised

\* the 64-bit integer r is the number v truncated toward zero, 0 for a
\* number that is not finite
IsInt64Of(r, v) ==
  /\ v.kind = "number"
  /\ ~v.finite => r = 0
  /\ v.finite /\ v.halves >= 0 => 2 * r <= v.halves /\ v.halves < 2 * r + 2
  /\ v.finite /\ v.halves < 0 => 2 * r - 2 < v.halves /\ v.halves <= 2 * r

\* C5: ExtractArrayShape on an empty output: when every boundary call
\* succeeds the output has the length of the array and holds the elements
\* converted to 64-bit integers in order; otherwise extraction stopped at the
\* failing element, one error was raised and is pending for the caller, and
\* the output holds the elements before the failing one only.  An array with
\* a non-numeric element never succeeds.
C5_ExtractArrayShape ==
  Finished("ExtractArrayShape") /\ fn.result0 = <<>> =>
    LET es == fn.args.elems
        out == fn.result
    IN /\ \A j \in 1..Len(out) : j <= Len(es) /\ IsInt64Of(out[j], es[j])
       /\ \A j \in 1..Len(es) : es[j].kind /= "number" => Len(out) < j
       /\ IF AllOk
          THEN /\ napi_is_array(fn.args)
               /\ Len(out) = Len(es)
               /\ env.thrown = <<>>
          ELSE /\ RaisedOne
               /\ env.pending /= <<>>
               /\ Len(out) = fn.i
               /\ Last(steps).call = "napi_get_array_length" => out = <<>>
               /\ Last(steps).call /= "napi_get_array_length" =>
                    Len(out) < Len(es)

\* C5 witness: extraction of [2.5, "ab"] stopped at the second element
C5_Witness ==
  /\ Finished("ExtractArrayShape")
  /\ fn.result0 = <<>>
  /\ fn.args = Array(<<Num(5), Str("ab")>>)
  /\ fn.result = <<2>>
  /\ env.pending = <<"Invalid napi_status: A number was expected\n">>

\* C6: GetStringParam never returns while the buffer it allocated is still
\* allocated.
C6_BufferReleased ==
  Finished("GetStringParam") /\ fn.buffer /= 0 => ~heap[fn.buffer].live

\* C7: EnsureValueIsLessThan raises the range error and returns false
\* exactly when value > max, and raises nothing and returns true otherwise;
\* an entry point whose ENSURE_VALUE_IS_LESS_THAN failed has returned and
\* runs no further step.
C7_LessThan ==
  /\ Finished("EnsureValueIsLessThan") =>
       IF fn.args.value > fn.args.max
       THEN /\ ret = "false"
            /\ RaisedOne
            /\ Last(env.thrown) =
                 "Argument is greater than max: " \o FormatU(fn.args.value)
                   \o " > " \o FormatU(fn.args.max)
       ELSE ret = "true" /\ RaisedNone
  /\ fn.name = "EntryPoint" =>
       /\ \A k \in 1..Len(steps) :
            steps[k] = Step("EnsureValueIsLessThan", "false") =>
              k = Len(steps) /\ pc = "done" /\ ret = "void"
       /\ fn.args.value > fn.args.max =>
            \A k \in 1..Len(steps) : steps[k].call /= "allocate"
       /\ fn.args.value <= fn.args.max =>
            \A k \in 1..Len(steps) :
              steps[k] /= Step("EnsureValueIsLessThan", "false")

\* C7 witness: an entry point called with new and with value > max returned
\* at its range check
C7_Witness ==
  /\ Finished("EntryPoint")
  /\ fn.args.info.new_target
  /\ fn.args.value > fn.args.max
  /\ Last(steps) = Step("EnsureValueIsLessThan", "false")
  /\ Len(env.thrown) = 1

NoAllocation == \A k \in 1..Len(steps) : steps[k].call /= "allocate"

\* C8 as stated: without new, EnsureConstructorCall raises the
\* constructor-misuse error and returns false on every path, and the entry
\* point returns before it allocates.
C8_AsStated ==
  /\ Finished("EnsureConstructorCall") /\ ~fn.args.info.new_target =>
       /\ ret = "false"
       /\ RaisedOne
       /\ Last(env.thrown) = "Function not used as a constructor!"
  /\ fn.name = "EntryPoint" /\ ~fn.args.info.new_target
       /\ pc /= "ep_constructor" =>
       /\ pc = "done"
       /\ NoAllocation
       /\ RaisedOne
       /\ Last(env.thrown) = "Function not used as a constructor!"

\* the one error EnsureConstructorCall raises without new: the
\* constructor-misuse error when the new-target query succeeded, the error of
\* the boundary status when the query failed
MisuseOrStatus(query) ==
  /\ RaisedOne
  /\ Ok(query) => Last(env.thrown) = "Function not used as a constructor!"
  /\ ~Ok(query) =>
       /\ StartsWith(Last(env.thrown), "Invalid napi_status: ")
       /\ ~Contains(Last(env.thrown), "constructor")

\* C8 amended: without new, EnsureConstructorCall raises exactly one error
\* and returns false, and the entry point returns before it allocates; the
\* error is the constructor-misuse error when the new-target query succeeds
\* and the boundary-status error when the query itself fails.
C8_Misuse ==
  /\ Finished("EnsureConstructorCall") /\ ~fn.args.info.new_target =>
       /\ ret = "false"
       /\ steps[1].status = fn.args.st
       /\ MisuseOrStatus(steps[1])
  /\ fn.name = "EntryPoint" /\ ~fn.args.info.new_target
       /\ pc /= "ep_constructor" =>
       /\ pc = "done"
       /\ ret = "void"
       /\ NoAllocation
       /\ Len(steps) = 2
       /\ MisuseOrStatus(steps[1])

\* C8 witness: an entry point called without new whose new-target query
\* failed
C8_Witness ==
  /\ Finished("EntryPoint")
  /\ ~fn.args.info.new_target
  /\ steps[1] = Step("napi_get_new_target", "napi_generic_failure")
  /\ Last(env.thrown) = "Invalid napi_status: Unknown failure\n"

\* C9: a tensor constructed by Int32Tensor(dims, num_dims, values) has
\* exactly P elements, P the product of dims (1 for no dimension, 0 with a
\* zero dimension), and holds the values in order; Int32Tensor(vector) gives
\* a tensor of rank 1 whose dimension is the length of the vector.
C9_RoundTrip ==
  /\ Finished("Int32Tensor") /\ ret = "tensor" =>
       LET t == fn.t[1]
           dims == fn.args.dims
       IN /\ GetTensorNumElements(t) = Product(dims)
          /\ GetTensorNumElements(t) = Len(fn.args.values)
          /\ TF_TensorData(t, heap) = fn.args.values
          /\ TF_NumDims(t) = Len(dims)
          /\ \A i \in 1..Len(dims) : TF_Dim(t, i - 1) = dims[i]
          /\ dims = <<>> => GetTensorNumElements(t) = 1
          /\ (\E i \in 1..Len(dims) : dims[i] = 0) =>
               GetTensorNumElements(t) = 0 /\ TF_TensorData(t, heap) = <<>>
          /\ env = fn.before
  /\ Finished("Int32TensorVector") /\ ret = "tensor" =>
       LET t == fn.t[1]
       IN /\ TF_NumDims(t) = 1
          /\ TF_Dim(t, 0) = Len(fn.args.values)
          /\ GetTensorNumElements(t) = Len(fn.args.values)
          /\ TF_TensorData(t, heap) = fn.args.values

\* C9 witness: a 2 x 2 tensor was constructed from four values
C9_Witness ==
  /\ Finished("Int32Tensor")
  /\ ret = "tensor"
  /\ fn.args.dims = <<2, 2>>
  /\ fn.args.values = <<-1, -2, -3, -4>>
  /\ GetTensorNumElements(fn.t[1]) = 4

\* C10: the buffer of a scalar tensor is live and owned by the bridging
\* layer until TF_NewTensor, which leaves the layer without a reference to
\* it; the runtime calls the callback at most once per tensor, on the pointer
\* registered; a buffer made with new[] is released at most once and with
\* delete[], and is live as long as its tensor holds it.
C10_Ownership ==
  /\ pc = "i32_newtensor" =>
       /\ heap[fn.values].live
       /\ heap[fn.values].owner = "bridge"
       /\ heap[fn.values].val = <<fn.args>>
  /\ Finished("Int32TensorScalar") =>
       /\ fn.values = 0
       /\ \A a \in DOMAIN heap : heap[a].owner /= "bridge"
       /\ tensors[Len(tensors)].deallocator = "Int32Deallocator"
       /\ TF_TensorData(tensors[Len(tensors)], heap) = <<fn.args>>
  /\ \A t \in 1..Len(tensors) :
       /\ Len(tensors[t].released) <= 1
       /\ \A k \in 1..Len(tensors[t].released) :
            tensors[t].released[k] = tensors[t].buf
       /\ tensors[t].released = <<>> =>
            /\ tensors[t].alive
            /\ heap[tensors[t].buf].live
            /\ heap[tensors[t].buf].owner = "runtime"
       /\ tensors[t].released /= <<>> => heap[tensors[t].buf].frees = 1
  /\ \A a \in DOMAIN heap :
       heap[a].form = "new[]" =>
         /\ heap[a].frees <= 1
         /\ heap[a].frees = 1 => heap[a].released_as = "delete[]"
         /\ heap[a].live <=> heap[a].frees = 0

\* C10 witness: the runtime kept the buffer of a scalar tensor, deleted the
\* tensor later and released the buffer through the callback
C10_Witness ==
  /\ pc = "idle"
  /\ Len(tensors) >= 1
  /\ ~tensors[1].alive
  /\ tensors[1].released = <<tensors[1].buf>>
  /\ heap[tensors[1].buf].frees = 1
  /\ heap[tensors[1].buf].released_as = "delete[]"

Allocations == {"malloc", "TF_AllocateTensor", "TF_NewTensor", "TF_NewOperation"}

\* C11: in every function that allocates, a null handle is the last step of
\* the function: the function has raised "Argument is null!" and has
\* returned without using the handle.
C11_NullChecked ==
  \A k \in 1..Len(steps) :
    steps[k].call \in Allocations /\ steps[k].status = "false" =>
      /\ k = Len(steps)
      /\ pc = "done"
      /\ Len(env.thrown) = 1
      /\ Last(env.thrown) = "Argument is null!"

\* the value has the type the validator requires
HasType(name, value) ==
  CASE name = "EnsureValueIsObject" -> napi_typeof(value) = "napi_object"
    [] name = "EnsureValueIsString" -> napi_typeof(value) = "napi_string"
    [] name = "EnsureValueIsNumber" -> napi_typeof(value) = "napi_number"
    [] name = "EnsureValueIsArray" -> napi_is_array(value)
    [] OTHER -> napi_is_typedarray(value)

\* the type the message of a validator has to name
RequiredType(name) ==
  CASE name = "EnsureValueIsObject" -> "an object"
    [] name = "EnsureValueIsString" -> "a string"
    [] name = "EnsureValueIsNumber" -> "a number"
    [] name = "EnsureValueIsArray" -> "an array"
    [] OTHER -> "a typed-array"

\* C12: a type validator whose boundary call succeeded returns true without
\* raising exactly when the value has the required type, and otherwise
\* returns false after raising one error, "Argument is not <type>!", that
\* names the type the validator requires (so the five messages differ).
C12_TypeMessages ==
  pc = "done" /\ fn.name \in Validators /\ fn.args.st = "napi_ok" =>
    IF HasType(fn.name, fn.args.value)
    THEN ret = "true" /\ RaisedNone
    ELSE /\ ret = "false"
         /\ RaisedOne
         /\ Last(env.thrown) = "Argument is not " \o RequiredType(fn.name)
                                 \o "!"

====
